---- MODULE Spec2Model ----
(***************************************************************************)
(* A model of the ImageZebra API examples: the authenticated client        *)
(* (IZClient), upload_and_analyze, get_analysis_results, the target        *)
(* lookup find_matching_target and the three example scripts.              *)
(*                                                                         *)
(* Python values are modelled as follows.  A dict is the sequence of its   *)
(* <<key, value>> items in insertion order.  An optional value (None or a  *)
(* value) is the empty sequence or a one-element sequence.  A response is  *)
(* a record [status, body]; a body is [kind, val] where kind says whether  *)
(* the text is valid JSON ("json", val the value it decodes to), other     *)
(* text ("text") or no content ("empty").                                  *)
(***************************************************************************)
EXTENDS Integers, Sequences, FiniteSets, TLC

VARIABLES
    impl,          \* which IZClient class is in use: "iz_client" or "main"
    workflow,      \* which script runs: "main", "analysis_example", "targets_example", or "api" / "find"
    pc,            \* position of the running script
    token,         \* IZClient.token (optional)
    auth_headers,  \* IZClient._auth_headers (dict)
    sent,          \* the request most recently handed to the HTTP library (optional)
    calls,         \* the requests issued so far, oldest first
    resp,          \* the response most recently received (optional)
    exc,           \* the exception most recently raised by a client call
    ret,           \* the value most recently returned by a client call (optional)
    presigned,     \* upload_and_analyze: presigned_url_response (dict)
    form,          \* upload_and_analyze: the multipart form posted to storage
    upload_id,     \* the value upload_and_analyze returned (optional)
    polls,         \* get_analysis_results: poll requests issued
    slept,         \* get_analysis_results: seconds spent in sleep()
    retval,        \* what get_analysis_results returned: <<>> not returned
    printed,       \* lines get_analysis_results printed
    library,       \* the service's target library (sequence of target dicts)
    library0,      \* the library when the script started
    targets,       \* targets_example: the listed targets
    created,       \* targets_example: created flag
    target,        \* targets_example: the target in use (optional)
    f_targets,     \* find_matching_target: argument targets
    f_name,        \* find_matching_target: argument name
    f_found        \* find_matching_target: <<>> before the call, <<result>> after

clientVars == <<impl, token, auth_headers, sent, calls, resp, exc, ret>>
uploadVars == <<presigned, form, upload_id>>
pollVars   == <<polls, slept, retval, printed>>
targetVars == <<library, library0, targets, created, target>>
findVars   == <<f_targets, f_name, f_found>>
vars == <<workflow, pc, clientVars, uploadVars, pollVars, targetVars, findVars>>

---------------------------------------------------------------------------
(* Bounds of the model *)
MaxRequests == 2      \* requests issued through one client in ClientSpec
MaxPolls    == 2      \* poll attempts followed before the model stops
MaxFields   == 2      \* presigned form fields
MaxLibrary  == 1      \* targets in the library when targets_example starts
MaxTargets  == 2      \* targets in a list given to find_matching_target

---------------------------------------------------------------------------
(* Python dicts and optionals *)

None == <<>>
Some(v) == <<v>>

HasKey(d, k) == \E i \in 1..Len(d) : d[i][1] = k
IndexOf(d, k) == CHOOSE i \in 1..Len(d) : d[i][1] = k
Get(d, k) == d[IndexOf(d, k)][2]
Keys(d) == {d[i][1] : i \in 1..Len(d)}

\* d[k] = v : an existing key keeps its position, a new key is appended
DictSet(d, k, v) ==
    IF HasKey(d, k) THEN [d EXCEPT ![IndexOf(d, k)] = <<k, v>>]
    ELSE Append(d, <<k, v>>)

RECURSIVE DictUpdate(_, _)
DictUpdate(d, items) ==
    IF items = <<>> THEN d
    ELSE DictUpdate(DictSet(d, Head(items)[1], Head(items)[2]), Tail(items))

\* Python dict equality: the same keys with the same values, in any order
DictEq(a, b) ==
    /\ Keys(a) = Keys(b)
    /\ \A k \in Keys(a) : Get(a, k) = Get(b, k)

\* all sequences of at most n elements of S
RECURSIVE SeqsUpTo(_, _)
SeqsUpTo(n, S) ==
    IF n = 0 THEN {<<>>}
    ELSE LET P == SeqsUpTo(n - 1, S)
         IN  P \cup {Append(q, e) : q \in {x \in P : Len(x) = n - 1}, e \in S}

MaxOf(I) == CHOOSE i \in I : \A j \in I : j <= i

---------------------------------------------------------------------------
(* HTTP: responses, requests.Response.raise_for_status and .json *)

BASE_URL == "https://imagezebra.com/api"
APPLICATION_KEY == "app-key"
NOT_COMPLETE == "Image analysis not complete"

JsonBody(v) == [kind |-> "json", val |-> v]
TextBody    == [kind |-> "text", val |-> <<>>]
EmptyBody   == [kind |-> "empty", val |-> <<>>]
Response(status, body) == [status |-> status, body |-> body]

NoExc == [type |-> "None", response_content |-> None]
\* an exception; response_content is the attribute _request attaches (optional)
Exc(type, content) == [type |-> type, response_content |-> content]

Returned(v) == [exc |-> NoExc, ret |-> v]
Raised(e)   == [exc |-> e, ret |-> None]

\* TRUE when response.raise_for_status() raises HTTPError: a 4xx or 5xx status
raise_for_status(status) == 400 <= status /\ status < 600

\* TRUE when response.json() decodes the body (it raises JSONDecodeError otherwise)
json_ok(body) == body.kind = "json"
json(body) == body.val

\* requests sends header names case-insensitively; of two entries whose names
\* differ only in case the later one of the dict is the one sent
Lower(k) ==
    CASE k = "Authorization" -> "authorization"
      [] k = "X-Application-Key" -> "x-application-key"
      [] k = "Accept" -> "accept"
      [] OTHER -> k

WireHeader(headers, name) ==
    LET I == {i \in 1..Len(headers) : Lower(headers[i][1]) = Lower(name)}
    IN  IF I = {} THEN None ELSE Some(headers[MaxOf(I)][2])

---------------------------------------------------------------------------
(* IZClient *)

\* variant: __init__ without the raise_for_status() call
IZClient_init_mut(r) ==
    IF ~json_ok(r.body)
    THEN [exc |-> Exc("JSONDecodeError", None), token |-> None, auth_headers |-> <<>>]
    ELSE IF ~HasKey(json(r.body), "token")
    THEN [exc |-> Exc("KeyError", None), token |-> None, auth_headers |-> <<>>]
    ELSE LET t == Get(json(r.body), "token")
         IN  [exc |-> NoExc, token |-> Some(t),
              auth_headers |-> << <<"Authorization", "Bearer " \o t>>,
                                  <<"X-Application-Key", APPLICATION_KEY>> >>]
\* IZClient.__init__ applied to the response of POST /token
IZClient_init(r) ==
    IF raise_for_status(r.status)
    THEN [exc |-> Exc("HTTPError", None), token |-> None, auth_headers |-> <<>>]
    ELSE IF ~json_ok(r.body)
    THEN [exc |-> Exc("JSONDecodeError", None), token |-> None, auth_headers |-> <<>>]
    ELSE IF ~HasKey(json(r.body), "token")
    THEN [exc |-> Exc("KeyError", None), token |-> None, auth_headers |-> <<>>]
    ELSE LET t == Get(json(r.body), "token")
         IN  [exc |-> NoExc, token |-> Some(t),
              auth_headers |-> << <<"Authorization", "Bearer " \o t>>,
                                  <<"X-Application-Key", APPLICATION_KEY>> >>]

\* variant: the caller's headers replace the stored ones instead of being merged
_request_headers_mut(auth, kwargs_headers) == kwargs_headers
\* headers = {**self._auth_headers, **kwargs.pop('headers', {})}
_request_headers(auth, kwargs_headers) == DictUpdate(auth, kwargs_headers)

\* the except branch of _request: the body decoded, or {} when it is not JSON
response_content(r) == IF json_ok(r.body) THEN json(r.body) ELSE <<>>

\* variant: _request without the 204 case
_request_iz_client_mut(r) ==
    IF raise_for_status(r.status)
    THEN Raised(Exc("HTTPError", Some(response_content(r))))
    ELSE IF ~json_ok(r.body) THEN Raised(Exc("JSONDecodeError", None))
    ELSE Returned(Some(json(r.body)))
\* iz_client.IZClient._request from the response on
_request_iz_client(r) ==
    IF raise_for_status(r.status)
    THEN Raised(Exc("HTTPError", Some(response_content(r))))
    ELSE IF r.status = 204 THEN Returned(None)
    ELSE IF ~json_ok(r.body) THEN Raised(Exc("JSONDecodeError", None))
    ELSE Returned(Some(json(r.body)))

\* main.IZClient._request from the response on: it has no 204 case
_request_main(r) ==
    IF raise_for_status(r.status)
    THEN Raised(Exc("HTTPError", Some(response_content(r))))
    ELSE IF ~json_ok(r.body) THEN Raised(Exc("JSONDecodeError", None))
    ELSE Returned(Some(json(r.body)))

_request(i, r) == IF i = "main" THEN _request_main(r) ELSE _request_iz_client(r)

\* a request handed to the HTTP library; kwargs_headers keeps the headers= argument
\* of the caller it was built from
Request(method, url, headers, params, kwargs_headers) ==
    [method |-> method, url |-> url, headers |-> headers, params |-> params,
     kwargs_headers |-> kwargs_headers]
\* one entry of the log of issued requests: what was asked and the status answered
Call(kind, url, status) == [kind |-> kind, url |-> url, status |-> status]

\* a request is issued, answered by r, and the call ends as o says
Issue(kind, req, r, o) ==
    /\ sent' = Some(req)
    /\ calls' = Append(calls, Call(kind, req.url, r.status))
    /\ resp' = Some(r)
    /\ exc' = o.exc
    /\ ret' = o.ret

---------------------------------------------------------------------------
(* The service's answers *)

Tokens == {"t1", "t2"}
AuthResponses ==
    {Response(200, JsonBody(<< <<"token", t>> >>)) : t \in Tokens}
    \cup {Response(304, JsonBody(<< <<"token", "t1">> >>)),
          Response(200, JsonBody(<<>>)),
          Response(200, TextBody),
          Response(304, TextBody),
          Response(401, JsonBody(<< <<"error", "bad credentials">> >>)),
          Response(401, JsonBody(<< <<"token", "t1">> >>)),
          Response(500, TextBody)}

\* bodies of a generic API answer
ApiBodies == {JsonBody(<< <<"error", NOT_COMPLETE>> >>), TextBody, EmptyBody}
ApiResponses == {Response(s, b) : s \in {200, 204, 304, 409, 500}, b \in ApiBodies}

\* the headers= argument a caller of get, post or delete may pass
CallerHeaders ==
    {<<>>,
     << <<"Accept", "application/json">> >>,
     << <<"Authorization", "Bearer forged">> >>,
     << <<"authorization", "Bearer forged">> >>,
     << <<"Accept", "application/json">>, <<"Authorization", "Basic forged">> >>}

---------------------------------------------------------------------------
(* ClientSpec: one IZClient used through get, post and delete by any caller *)

workflowVars == <<uploadVars, pollVars, targetVars, findVars>>

InitRest ==
    /\ token = None /\ auth_headers = <<>> /\ sent = None /\ calls = <<>>
    /\ resp = None /\ exc = NoExc /\ ret = None
    /\ presigned = <<>> /\ form = <<>> /\ upload_id = None
    /\ polls = 0 /\ slept = 0 /\ retval = None /\ printed = <<>>
    /\ library = <<>> /\ library0 = <<>> /\ targets = <<>> /\ created = FALSE /\ target = None
    /\ f_found = None

ClientInit ==
    /\ workflow = "api" /\ pc = "start"
    /\ impl \in {"iz_client", "main"}
    /\ InitRest
    /\ f_targets = <<>> /\ f_name = ""

AfterInit(w) ==
    CASE w = "api" -> "ready"
      [] w = "targets_example" -> "list_targets"
      [] OTHER -> "user_data"

\* client = IZClient(...): POST /token, then the token and the headers are stored
Construct ==
    /\ pc = "start"
    /\ \E r \in AuthResponses :
         LET o == IZClient_init(r)
         IN  /\ Issue("token",
                      Request("POST", BASE_URL \o "/token",
                              << <<"X-Application-Key", APPLICATION_KEY>> >>, <<>>, <<>>),
                      r, [exc |-> o.exc, ret |-> None])
             /\ token' = o.token
             /\ auth_headers' = o.auth_headers
             /\ pc' = IF o.exc = NoExc THEN AfterInit(workflow) ELSE "raised"
    /\ UNCHANGED <<impl, workflow, workflowVars>>

\* client.get / client.post / client.delete with any caller-supplied headers
ApiRequest(method) ==
    /\ pc = "ready"
    /\ Len(calls) <= MaxRequests
    /\ \E h \in CallerHeaders, r \in ApiResponses :
         LET o == _request(impl, r)
         IN  Issue(method,
                   Request(method, BASE_URL \o "/targets",
                           _request_headers(auth_headers, h), <<>>, h),
                   r, o)
    /\ UNCHANGED <<impl, workflow, pc, token, auth_headers, workflowVars>>

ApiGet == ApiRequest("GET")
ApiPost == ApiRequest("POST")
ApiDelete == impl = "iz_client" /\ ApiRequest("DELETE")

ClientNext == Construct \/ ApiGet \/ ApiPost \/ ApiDelete
ClientSpec == ClientInit /\ [][ClientNext]_vars

---------------------------------------------------------------------------
(* The example scripts: state shared by main.py, analysis_example.py and   *)
(* targets_example.py                                                      *)

\* Path(image_path).name of the default image path images/low_res_GT_A.jpg
FILENAME == "low_res_GT_A.jpg"
S3_URL == "https://s3/x"

TARGET_NAME == "Example Golden Thread"
TARGET_TYPE == "golden_thread_device_level"

TypeError == Exc("TypeError", None)
KeyError == Exc("KeyError", None)

\* value[key] on an optional dict: the exception it raises, or NoExc
Subscript(value, key) ==
    IF value = None THEN TypeError
    ELSE IF ~HasKey(value[1], key) THEN KeyError
    ELSE NoExc

\* the first exception of a sequence of outcomes, or NoExc
RECURSIVE FirstExc(_)
FirstExc(es) ==
    IF es = <<>> THEN NoExc
    ELSE IF Head(es) # NoExc THEN Head(es) ELSE FirstExc(Tail(es))

\* an authenticated request of the running client, without caller headers
ClientRequest(method, path, params) ==
    Request(method, BASE_URL \o path, _request_headers(auth_headers, <<>>), params, <<>>)

ErrorBody(msg) == JsonBody(<< <<"error", msg>> >>)

---------------------------------------------------------------------------
(* GET /user-data *)

str_lower(t) == IF t = "Platinum" THEN "platinum" ELSE t

UserDataResponses ==
    {Response(200, JsonBody(<< <<"tierName", "Platinum">> >>)),
     Response(200, JsonBody(<< <<"tierName", "free">>, <<"analysisBalance", "5">> >>)),
     Response(200, JsonBody(<< <<"tierName", "free">> >>)),
     Response(401, ErrorBody("token expired")),
     Response(500, TextBody)}

\* what the script does with user_data: the exception it raises, or NoExc
read_user_data(w, user_data) ==
    IF w = "main" THEN Subscript(user_data, "analysisBalance")
    ELSE IF Subscript(user_data, "tierName") # NoExc THEN Subscript(user_data, "tierName")
    ELSE LET tier_name == Get(user_data[1], "tierName")
         IN  IF tier_name # "" /\ str_lower(tier_name) = "platinum" THEN NoExc
             ELSE Subscript(user_data, "analysisBalance")

GetUserData ==
    /\ pc = "user_data"
    /\ \E r \in UserDataResponses :
         LET o == _request(impl, r)
             err == FirstExc(<<o.exc, IF o.exc = NoExc THEN read_user_data(workflow, o.ret) ELSE NoExc>>)
         IN  /\ Issue("user-data", ClientRequest("GET", "/user-data", <<>>), r,
                      [exc |-> err, ret |-> o.ret])
             /\ pc' = IF err = NoExc THEN "presign" ELSE "raised"
    /\ UNCHANGED <<impl, workflow, token, auth_headers, workflowVars>>

---------------------------------------------------------------------------
(* upload_and_analyze *)

Field(k, v) == << <<"key", k>>, <<"value", v>> >>
Fields == {Field("key", "v1"), Field("key", "v2"), Field("policy", "v1")}

\* form_data = {e['key']: e['value'] for e in fields}
form_data(fields) ==
    DictUpdate(<<>>, [i \in 1..Len(fields) |->
                        <<Get(fields[i], "key"), Get(fields[i], "value")>>])

\* the multipart body requests builds: the data fields in dict order, then the files
multipart(data, files) == data \o files

PresignBody(F, u) == JsonBody(<< <<"url", S3_URL>>, <<"fields", F>>, <<"uploadId", u>> >>)
PresignResponses ==
    {Response(200, PresignBody(F, "u1")) : F \in SeqsUpTo(MaxFields, Fields)}
    \cup {Response(200, JsonBody(<< <<"url", S3_URL>>, <<"uploadId", "u1">> >>)),
          Response(204, EmptyBody),
          Response(404, ErrorBody("unknown file type")),
          Response(500, TextBody)}

StorageStatuses == {204, 304, 403, 500}

SubmitResponses ==
    {Response(200, JsonBody(<<>>)), Response(204, EmptyBody), Response(304, TextBody),
     Response(409, ErrorBody("already requested")), Response(500, TextBody)}

\* params = {'target_id': target_id} if target_id else {}
submit_params(w, tgt) ==
    IF w = "targets_example" /\ tgt # None /\ Get(tgt[1], "id") # ""
    THEN << <<"target_id", Get(tgt[1], "id")>> >>
    ELSE <<>>

\* the storage step runs once the presign call and open() have both succeeded
upload_proceeds(err) == err = NoExc

\* variant: the storage answer is not checked
submit_proceeds_mut(status) == TRUE
\* the submit step runs once the storage answer passed raise_for_status
submit_proceeds(status) == ~raise_for_status(status)

\* upload_and_analyze up to the storage POST: the presign GET, fields, form_data, open()
Presign ==
    /\ pc = "presign"
    /\ \E r \in PresignResponses, readable \in BOOLEAN :
         LET o == _request(impl, r)
             err == FirstExc(<<o.exc,
                               IF o.exc = NoExc THEN Subscript(o.ret, "fields") ELSE NoExc,
                               IF readable THEN NoExc ELSE Exc("FileNotFoundError", None)>>)
         IN  /\ Issue("presign", ClientRequest("GET", "/presigned-urls/" \o FILENAME, <<>>), r,
                      [exc |-> err, ret |-> o.ret])
             /\ presigned' = IF o.exc = NoExc /\ o.ret # None THEN o.ret[1] ELSE <<>>
             /\ pc' = IF upload_proceeds(err) THEN "upload" ELSE "raised"
    /\ UNCHANGED <<impl, workflow, token, auth_headers, form, upload_id,
                   pollVars, targetVars, findVars>>

\* the multipart POST to the presigned URL, outside the client: no bearer token
Upload ==
    /\ pc = "upload"
    /\ \E st \in StorageStatuses :
         LET r == Response(st, IF st = 204 THEN EmptyBody ELSE TextBody)
             data == form_data(Get(presigned, "fields"))
             files == << <<"file", FILENAME>> >>
             failed == raise_for_status(st)
         IN  /\ Issue("storage", Request("POST", Get(presigned, "url"), <<>>, <<>>, <<>>), r,
                      [exc |-> IF failed THEN Exc("HTTPError", None) ELSE NoExc,
                       ret |-> None])
             /\ form' = multipart(data, files)
             /\ pc' = IF submit_proceeds(st) THEN "submit" ELSE "raised"
    /\ UNCHANGED <<impl, workflow, token, auth_headers, presigned, upload_id,
                   pollVars, targetVars, findVars>>

\* return presigned_url_response['uploadId']
upload_and_analyze_return(p) == Get(p, "uploadId")

\* POST /requests-for-analysis/{uploadId} and the return of upload_and_analyze
Submit ==
    /\ pc = "submit"
    /\ \E r \in SubmitResponses :
         LET o == _request(impl, r)
         IN  /\ Issue("submit",
                      ClientRequest("POST",
                                    "/requests-for-analysis/" \o Get(presigned, "uploadId"),
                                    submit_params(workflow, target)),
                      r, o)
             /\ upload_id' = IF o.exc = NoExc THEN Some(upload_and_analyze_return(presigned))
                             ELSE None
             /\ pc' = IF o.exc = NoExc THEN "poll" ELSE "raised"
    /\ UNCHANGED <<impl, workflow, token, auth_headers, presigned, form,
                   pollVars, targetVars, findVars>>

---------------------------------------------------------------------------
(* get_analysis_results *)

\* sleep(5)
POLL_DELAY == 5

MetricGroup ==
    << <<"name", "Color">>,
       <<"metrics", << << <<"name", "Delta E">>, <<"stars", 4>>, <<"isPassing", TRUE>> >> >> >> >>

Summary(passing, groups) ==
    << <<"filePath", "a.jpg">>, <<"passing", passing>>, <<"referenceValuesUsed", "defaults">>,
       <<"spec", "v1">>, <<"targetType", "x">>, <<"metricGroups", groups>> >>
\* a summary the service sends without its spec field
SummaryNoSpec ==
    << <<"filePath", "a.jpg">>, <<"passing", TRUE>>, <<"referenceValuesUsed", "defaults">>,
       <<"targetType", "x">>, <<"metricGroups", <<>> >> >>
Summaries == {Summary(TRUE, <<>>), Summary(FALSE, <<MetricGroup>>), SummaryNoSpec}

\* error bodies of a poll: the "not complete" message alone, with a further
\* entry, another message, the message under another key, and a body that is
\* not JSON
PollErrorBodies ==
    {ErrorBody(NOT_COMPLETE),
     ErrorBody("Upload not found"),
     JsonBody(<< <<"message", NOT_COMPLETE>> >>),
     TextBody}
PollResponses ==
    {Response(200, JsonBody(d)) : d \in Summaries}
    \cup {Response(409, b) : b \in PollErrorBodies}
    \cup {Response(500, JsonBody(<< <<"error", NOT_COMPLETE>>, <<"detail", "queued">> >>)),
          Response(200, TextBody), Response(204, EmptyBody),
          Response(304, ErrorBody(NOT_COMPLETE)),
          Response(500, TextBody)}

\* variant: the whole body is compared instead of its error entry
retries_mut(e) ==
    /\ e.type = "HTTPError"
    /\ e.response_content # None
    /\ DictEq(e.response_content[1], << <<"error", NOT_COMPLETE>> >>)
\* the except clause: TRUE when the loop sleeps and polls again, FALSE when it re-raises
\*   except HTTPError as e: if e.response_content.get('error') != '...': raise
retries(e) ==
    /\ e.type = "HTTPError"
    /\ e.response_content # None
    /\ HasKey(e.response_content[1], "error")
    /\ Get(e.response_content[1], "error") = NOT_COMPLETE

\* str() of a bool, as the f-strings format it
PyStr(b) == IF b THEN "True" ELSE "False"
\* f'{name:40}': the name padded with spaces to 40 characters
Pad40(name) == IF name = "Delta E" THEN "Delta E                                 " ELSE name
STARS == "********************************************************************************"
DASHES == "--------------------------------------------------------------------------------"

HEADER_KEYS == <<"filePath", "passing", "referenceValuesUsed", "spec", "targetType">>
HeaderLines(k, v) ==
    CASE k = "filePath" -> <<"\nAnalysis for " \o v, STARS>>
      [] k = "passing" -> <<"Passing quality thresholds: " \o PyStr(v)>>
      [] k = "referenceValuesUsed" -> <<"Reference values used: " \o v>>
      [] k = "spec" -> <<"Specification used: " \o v>>
      [] k = "targetType" -> <<"Target type: " \o v>>

\* the header prints, up to the first key the response lacks
RECURSIVE PrintHeader(_, _)
PrintHeader(d, keys) ==
    IF keys = <<>> THEN [lines |-> <<>>, exc |-> NoExc]
    ELSE IF ~HasKey(d, Head(keys)) THEN [lines |-> <<>>, exc |-> KeyError]
    ELSE LET rest == PrintHeader(d, Tail(keys))
         IN  [lines |-> HeaderLines(Head(keys), Get(d, Head(keys))) \o rest.lines,
              exc |-> rest.exc]

MetricLine(m) ==
    Pad40(Get(m, "name")) \o ToString(Get(m, "stars")) \o " stars, passing: "
        \o PyStr(Get(m, "isPassing"))

RECURSIVE PrintGroups(_)
PrintGroups(groups) ==
    IF groups = <<>> THEN <<>>
    ELSE LET g == Head(groups)
             ms == Get(g, "metrics")
         IN  <<"\n" \o Get(g, "name") \o "\n" \o DASHES>>
             \o [i \in 1..Len(ms) |-> MetricLine(ms[i])]
             \o PrintGroups(Tail(groups))

\* the print section of get_analysis_results on the response of the last poll
print_summary(response) ==
    IF response = None THEN [lines |-> <<>>, exc |-> TypeError]
    ELSE LET h == PrintHeader(response[1], HEADER_KEYS)
         IN  IF h.exc # NoExc THEN h
             ELSE IF ~HasKey(response[1], "metricGroups")
             THEN [lines |-> h.lines, exc |-> KeyError]
             ELSE [lines |-> h.lines \o PrintGroups(Get(response[1], "metricGroups")),
                   exc |-> NoExc]

\* variant: the function ends with "return response"
get_analysis_results_return_mut(response) == response
\* get_analysis_results has no return statement: it returns None
get_analysis_results_return(response) == None

\* variant: the clean-up does not look at the created flag
AfterResults_mut(w, c) == IF w = "targets_example" THEN "delete" ELSE "done"
\* after the results: targets_example deletes the target when created is set
AfterResults(w, c) == IF w = "targets_example" /\ c THEN "delete" ELSE "done"

\* one pass of the while loop: the poll GET and what follows its answer
Poll ==
    /\ pc = "poll"
    /\ polls < MaxPolls
    /\ \E r \in PollResponses :
         LET o == _request(impl, r)
             p == IF o.exc = NoExc THEN print_summary(o.ret)
                  ELSE [lines |-> <<>>, exc |-> o.exc]
         IN  /\ Issue("poll",
                      ClientRequest("GET", "/upload-results-summary/" \o upload_id[1], <<>>),
                      r, [exc |-> p.exc, ret |-> o.ret])
             /\ polls' = polls + 1
             /\ printed' = p.lines
             /\ IF o.exc # NoExc /\ retries(o.exc)
                THEN pc' = "sleep" /\ retval' = retval
                ELSE IF p.exc # NoExc
                THEN pc' = "raised" /\ retval' = retval
                ELSE /\ pc' = AfterResults(workflow, created)
                     /\ retval' = Some(get_analysis_results_return(o.ret))
    /\ UNCHANGED <<impl, workflow, token, auth_headers, uploadVars, slept,
                   targetVars, findVars>>

\* variant: the loop gives up after its second attempt
Sleep_mut ==
    /\ pc = "sleep"
    /\ slept' = slept + POLL_DELAY
    /\ pc' = IF polls >= 2 THEN "raised" ELSE "poll"
    /\ UNCHANGED <<workflow, clientVars, uploadVars, polls, retval, printed,
                   targetVars, findVars>>
\* sleep(5), then the loop starts over
Sleep ==
    /\ pc = "sleep"
    /\ slept' = slept + POLL_DELAY
    /\ pc' = "poll"
    /\ UNCHANGED <<workflow, clientVars, uploadVars, polls, retval, printed,
                   targetVars, findVars>>

---------------------------------------------------------------------------
(* targets_example.py *)

Target(id, name) == << <<"id", id>>, <<"name", name>>, <<"targetType", TARGET_TYPE>> >>
TargetId(i) == "T" \o ToString(i)
TargetNames == {TARGET_NAME, "Other"}

\* the libraries the service may hold when the script starts: ids are unique
Libraries ==
    UNION {{[i \in 1..n |-> Target(TargetId(i), f[i])] : f \in [1..n -> TargetNames]} :
             n \in 0..MaxLibrary}

Ids(lib) == {Get(lib[i], "id") : i \in 1..Len(lib)}

RECURSIVE Without(_, _)
Without(lib, id) ==
    IF lib = <<>> THEN <<>>
    ELSE IF Get(Head(lib), "id") = id THEN Without(Tail(lib), id)
    ELSE <<Head(lib)>> \o Without(Tail(lib), id)

\* variant: the scan runs from the end of the list
RECURSIVE find_matching_target_mut(_, _)
find_matching_target_mut(ts, name) ==
    IF ts = <<>> THEN None
    ELSE IF Get(ts[Len(ts)], "name") = name THEN Some(ts[Len(ts)])
    ELSE find_matching_target_mut(SubSeq(ts, 1, Len(ts) - 1), name)
\* for target in targets: if target['name'] == name: return target;  return None
RECURSIVE find_matching_target(_, _)
find_matching_target(ts, name) ==
    IF ts = <<>> THEN None
    ELSE IF Get(Head(ts), "name") = name THEN Some(Head(ts))
    ELSE find_matching_target(Tail(ts), name)

\* Python truth of an optional dict: None and {} are false
Truthy(v) == v # None /\ v[1] # <<>>

ListResponses(lib) ==
    {Response(200, JsonBody(<< <<"targets", lib>> >>)),
     Response(304, TextBody),
     Response(500, ErrorBody("internal error"))}

\* the service answers a create with the new target, under an id not in use
CreateResponses(lib) ==
    {Response(200, JsonBody(Target(TargetId(Len(lib) + 1), TARGET_NAME))),
     Response(304, JsonBody(<<>>)),
     Response(409, ErrorBody("quota exceeded"))}

DeleteResponses ==
    {Response(204, EmptyBody), Response(404, ErrorBody("no such target")),
     Response(500, TextBody)}

\* the service carries a request out exactly when it answers with a 2xx status
Accepted(status) == 200 <= status /\ status < 300

\* if existing: use it; else: create one
needs_create(existing) == ~Truthy(existing)

\* GET /targets, the listing, and the lookup of TARGET_NAME
ListTargets ==
    /\ pc = "list_targets"
    /\ \E r \in ListResponses(library) :
         LET o == _request(impl, r)
             err == FirstExc(<<o.exc,
                               IF o.exc = NoExc THEN Subscript(o.ret, "targets") ELSE NoExc>>)
             ts == IF err = NoExc THEN Get(o.ret[1], "targets") ELSE <<>>
             existing == find_matching_target(ts, TARGET_NAME)
         IN  /\ Issue("list", ClientRequest("GET", "/targets", <<>>), r,
                      [exc |-> err, ret |-> o.ret])
             /\ targets' = ts
             /\ target' = IF err = NoExc /\ ~needs_create(existing) THEN existing ELSE None
             /\ pc' = IF err # NoExc THEN "raised"
                      ELSE IF needs_create(existing) THEN "create" ELSE "presign"
    /\ UNCHANGED <<impl, workflow, token, auth_headers, uploadVars, pollVars,
                   library, library0, created, findVars>>

\* POST /targets; created = True; the created target is printed
CreateTarget ==
    /\ pc = "create"
    /\ \E r \in CreateResponses(library) :
         LET o == _request(impl, r)
             err == FirstExc(<<o.exc,
                               IF o.exc = NoExc THEN Subscript(o.ret, "name") ELSE NoExc,
                               IF o.exc = NoExc THEN Subscript(o.ret, "id") ELSE NoExc>>)
         IN  /\ Issue("create", ClientRequest("POST", "/targets", <<>>), r,
                      [exc |-> err, ret |-> o.ret])
             /\ library' = IF Accepted(r.status) THEN Append(library, json(r.body))
                           ELSE library
             /\ created' = (o.exc = NoExc)
             /\ target' = IF o.exc = NoExc THEN o.ret ELSE target
             /\ pc' = IF err = NoExc THEN "presign" ELSE "raised"
    /\ UNCHANGED <<impl, workflow, token, auth_headers, uploadVars, pollVars,
                   library0, targets, findVars>>

\* if created: client.delete(f'/targets/{target["id"]}')
DeleteTarget ==
    /\ pc = "delete"
    /\ \E r \in DeleteResponses :
         LET o == _request(impl, r)
             id == Get(target[1], "id")
         IN  /\ Issue("delete", ClientRequest("DELETE", "/targets/" \o id, <<>>), r, o)
             /\ library' = IF Accepted(r.status) THEN Without(library, id) ELSE library
             /\ pc' = IF o.exc = NoExc THEN "done" ELSE "raised"
    /\ UNCHANGED <<impl, workflow, token, auth_headers, uploadVars, pollVars,
                   library0, targets, created, target, findVars>>

---------------------------------------------------------------------------
(* Spec: one run of one of the three scripts against the service *)

Init ==
    /\ workflow \in {"main", "analysis_example", "targets_example"}
    /\ impl = (IF workflow = "main" THEN "main" ELSE "iz_client")
    /\ pc = "start"
    /\ token = None /\ auth_headers = <<>> /\ sent = None /\ calls = <<>>
    /\ resp = None /\ exc = NoExc /\ ret = None
    /\ presigned = <<>> /\ form = <<>> /\ upload_id = None
    /\ polls = 0 /\ slept = 0 /\ retval = None /\ printed = <<>>
    /\ library \in (IF workflow = "targets_example" THEN Libraries ELSE {<<>>})
    /\ library0 = library
    /\ targets = <<>> /\ created = FALSE /\ target = None
    /\ f_targets = <<>> /\ f_name = "" /\ f_found = None

Next ==
    \/ Construct
    \/ GetUserData
    \/ ListTargets
    \/ CreateTarget
    \/ Presign
    \/ Upload
    \/ Submit
    \/ Poll
    \/ Sleep
    \/ DeleteTarget

Spec == Init /\ [][Next]_vars

---------------------------------------------------------------------------
(* FindSpec: find_matching_target applied to any list and any name *)

FindTargets == {Target(id, n) : id \in {"T1", "T2"}, n \in TargetNames}

FindInit ==
    /\ workflow = "find" /\ pc = "start" /\ impl = "iz_client"
    /\ InitRest
    /\ f_targets \in SeqsUpTo(MaxTargets, FindTargets)
    /\ f_name \in TargetNames \cup {"Missing"}

Find ==
    /\ pc = "start"
    /\ f_found' = Some(find_matching_target(f_targets, f_name))
    /\ pc' = "done"
    /\ UNCHANGED <<workflow, clientVars, uploadVars, pollVars, targetVars, f_targets, f_name>>

FindNext == Find
FindSpec == FindInit /\ [][FindNext]_vars

---------------------------------------------------------------------------
(* Properties *)

LastKind == IF calls = <<>> THEN "" ELSE calls[Len(calls)].kind
KindsOf(cs) == [i \in 1..Len(cs) |-> cs[i].kind]
Count(kind) == Cardinality({i \in 1..Len(calls) : calls[i].kind = kind})
FirstIndex(kind) == CHOOSE i \in 1..Len(calls) : calls[i].kind = kind
Issued(kind) == \E i \in 1..Len(calls) : calls[i].kind = kind
StatusOf(kind) == calls[FirstIndex(kind)].status

\* a 4xx or 5xx status
ErrorStatus(status) == status >= 400 /\ status <= 599
\* a 2xx status
SuccessStatus(status) == status >= 200 /\ status <= 299

\* the body of the last answer as _request hands it on with an HTTP error
LastErrorBody == IF json_ok(resp[1].body) THEN json(resp[1].body) ELSE <<>>
SaysNotComplete(d) == HasKey(d, "error") /\ Get(d, "error") = NOT_COMPLETE
ExactlyNotComplete(d) == Len(d) = 1 /\ d[1] = <<"error", NOT_COMPLETE>>

\* C1 as stated: a failed poll is retried only when its error body is exactly
\* {"error": "Image analysis not complete"}; every other error body makes the
\* error propagate on that attempt and no further poll is issued.
C1_ExactBodyOnly ==
    (LastKind = "poll" /\ ErrorStatus(resp[1].status)) =>
        IF ExactlyNotComplete(LastErrorBody)
        THEN pc \in {"sleep", "poll"}
        ELSE pc = "raised" /\ ~ENABLED Next

\* C1 amended: a failed poll is retried exactly when the decoded error body has
\* an "error" entry equal to "Image analysis not complete", whatever other
\* entries it has; with any other error body (another message, no "error"
\* entry, a non-JSON body decoded as {}) the HTTP error propagates on that
\* attempt and no further request is issued.
C1_RetryOnErrorField ==
    (LastKind = "poll" /\ ErrorStatus(resp[1].status)) =>
        IF SaysNotComplete(LastErrorBody)
        THEN pc \in {"sleep", "poll"} /\ retval = None
        ELSE /\ pc = "raised"
             /\ exc = Exc("HTTPError", Some(LastErrorBody))
             /\ ~ENABLED Next

\* a poll answered "not complete" with a further entry in the body is retried
C1_Witness ==
    /\ pc = "sleep" /\ polls = 2
    /\ HasKey(LastErrorBody, "detail")
    /\ SaysNotComplete(LastErrorBody)

\* C2 as stated: once a poll succeeds get_analysis_results returns the parsed
\* summary to its caller, exactly as the service sent it.
C2_ReturnsSummary ==
    (retval # None /\ LastKind = "poll") => retval[1] = Some(json(resp[1].body))

PassingText(d) == IF Get(d, "passing") THEN "True" ELSE "False"
GroupLineCount(d) ==
    LET gs == Get(d, "metricGroups")
    IN  Len(gs) + Cardinality({<<i, j>> \in (1..Len(gs)) \X (1..2) :
                                  j <= Len(Get(gs[i], "metrics"))})

\* C2 amended: once a poll is answered without an HTTP error by a summary that
\* has every displayed field, get_analysis_results prints the fields with the
\* values the service sent and returns None to its caller; when the answer
\* lacks a displayed field it raises and returns nothing.
C2_PrintsSummaryReturnsNone ==
    /\ retval # None => retval[1] = None
    /\ (LastKind = "poll" /\ ~ErrorStatus(resp[1].status) /\ pc \notin {"poll", "sleep"}) =>
         IF /\ resp[1].status # 204 /\ json_ok(resp[1].body)
            /\ \A k \in {"filePath", "passing", "referenceValuesUsed", "spec",
                         "targetType", "metricGroups"} : HasKey(json(resp[1].body), k)
         THEN LET d == json(resp[1].body)
              IN  /\ retval = Some(None)
                  /\ pc \in {"done", "delete"}
                  /\ printed[1] = "\nAnalysis for " \o Get(d, "filePath")
                  /\ printed[3] = "Passing quality thresholds: " \o PassingText(d)
                  /\ printed[4] = "Reference values used: " \o Get(d, "referenceValuesUsed")
                  /\ printed[5] = "Specification used: " \o Get(d, "spec")
                  /\ printed[6] = "Target type: " \o Get(d, "targetType")
                  /\ Len(printed) = 6 + GroupLineCount(d)
         ELSE pc = "raised" /\ retval = None

\* a summary with a metric group arrives on the second poll and is printed
C2_Witness ==
    /\ retval = Some(None) /\ LastKind = "poll" /\ polls = 2
    /\ Len(printed) = 8
    /\ pc = "done"

---------------------------------------------------------------------------
ApiKinds == {"GET", "POST", "DELETE"}
SetsAuthorization(h) == \E i \in 1..Len(h) : Lower(h[i][1]) = "authorization"
SentAuthorization == WireHeader(sent[1].headers, "Authorization")

\* C3 as stated: every request issued through get, post or delete carries
\* Authorization: Bearer <token>, whatever headers the caller supplies.
C3_AlwaysBearerToken ==
    LastKind \in ApiKinds => SentAuthorization = Some("Bearer " \o token[1])

C3_Sent ==
    /\ (LastKind = "token" /\ pc = "ready") =>
          token = Some(Get(json(resp[1].body), "token"))
    /\ LastKind \in ApiKinds =>
          /\ token # None
          /\ SentAuthorization =
                IF SetsAuthorization(sent[1].kwargs_headers)
                THEN WireHeader(sent[1].kwargs_headers, "Authorization")
                ELSE Some("Bearer " \o token[1])
C3_Stored == token # None => (token' = token /\ auth_headers' = auth_headers)

\* C3 amended: the token stored at construction is the one the authentication
\* call returned and is never changed; every request issued through get, post
\* or delete carries Authorization: Bearer <token> provided the caller's
\* headers hold no Authorization entry (in any letter case); an Authorization
\* entry supplied by the caller is sent in place of the bearer token.
C3_BearerTokenUnlessOverridden == []C3_Sent /\ [][C3_Stored]_vars

\* a second request, with a caller's Accept header, carries the token of the run
C3_Witness ==
    /\ LastKind \in ApiKinds /\ Len(calls) = 3
    /\ token = Some("t2")
    /\ sent[1].kwargs_headers = << <<"Accept", "application/json">> >>
    /\ SentAuthorization = Some("Bearer t2")

---------------------------------------------------------------------------
AuthFailed ==
    /\ pc = "raised" /\ exc = Exc("HTTPError", None)
    /\ token = None /\ auth_headers = <<>>
    /\ Len(calls) = 1

\* C4 as stated: every non-2xx answer to POST /token makes construction fail
\* with the authentication error, stores no token, and no further request is
\* issued by the scripts.
C4_EveryNon2xx ==
    (calls # <<>> /\ ~SuccessStatus(calls[1].status)) => AuthFailed

\* C4 amended: every 4xx or 5xx answer to POST /token makes construction fail
\* with the HTTPError of raise_for_status (the authentication error), stores no
\* token, and no further request is issued by the scripts; raise_for_status
\* lets a 1xx or 3xx answer through.
C4_Every4xx5xx ==
    (calls # <<>> /\ ErrorStatus(calls[1].status)) => AuthFailed /\ ~ENABLED Next

\* the targets script is refused its token and stops there
C4_Witness ==
    /\ workflow = "targets_example" /\ pc = "raised"
    /\ Len(calls) = 1 /\ calls[1].kind = "token" /\ calls[1].status = 401
    /\ resp[1].body = JsonBody(<< <<"token", "t1">> >>)

---------------------------------------------------------------------------
\* C5 as stated: a non-success status fails with the error carrying the decoded
\* JSON body, or an empty structure; a success without body (204) returns an
\* empty result; a success with a body returns the decoded JSON structure.
C5_ThreeOutcomes ==
    LastKind \in ApiKinds =>
        LET r == resp[1]
        IN  IF ~SuccessStatus(r.status)
            THEN exc = Exc("HTTPError", Some(IF json_ok(r.body) THEN json(r.body) ELSE <<>>))
                 /\ ret = None
            ELSE IF r.status = 204 \/ r.body.kind = "empty"
            THEN exc = NoExc /\ ret = None
            ELSE exc = NoExc /\ ret = Some(json(r.body))

\* C5 amended: the outcome of get, post and delete is determined by the
\* response: a 4xx or 5xx status fails with the HTTPError carrying the decoded
\* JSON body when the body is valid JSON and {} otherwise; a 204 answer returns
\* None from iz_client's IZClient (main.py's IZClient has no 204 case and
\* decodes every answer); any other answer below 400 returns the decoded JSON
\* body and fails with a JSON decode error when the body is not valid JSON.
\* No 4xx or 5xx response yields a normal return.
C5_OutcomeByResponse ==
    LastKind \in ApiKinds =>
        LET r == resp[1]
        IN  IF ErrorStatus(r.status)
            THEN exc = Exc("HTTPError", Some(IF json_ok(r.body) THEN json(r.body) ELSE <<>>))
                 /\ ret = None
            ELSE IF r.status = 204 /\ impl = "iz_client"
            THEN exc = NoExc /\ ret = None
            ELSE IF r.body.kind = "json"
            THEN exc = NoExc /\ ret = Some(r.body.val)
            ELSE exc = Exc("JSONDecodeError", None) /\ ret = None

\* a delete answered 204 without a body returns None
C5_Witness ==
    /\ LastKind = "DELETE" /\ resp[1] = Response(204, EmptyBody)
    /\ exc = NoExc /\ ret = None

---------------------------------------------------------------------------
IsUploadCall(c) == c.kind \in {"presign", "storage", "submit"}
UploadCalls == SelectSeq(calls, IsUploadCall)
IsPrefix(a, b) == Len(a) <= Len(b) /\ \A i \in 1..Len(a) : a[i] = b[i]

\* what counts as a storage answer that lets the upload go on: a 2xx status
\* (only2xx), or any status that is not 4xx or 5xx
StorageOk(status, only2xx) ==
    IF only2xx THEN SuccessStatus(status) ELSE ~ErrorStatus(status)

UploadOrder(only2xx) ==
    /\ IsPrefix(KindsOf(UploadCalls), <<"presign", "storage", "submit">>)
    /\ Issued("storage") => ~ErrorStatus(StatusOf("presign"))
    /\ Issued("submit") =>
          /\ StorageOk(StatusOf("storage"), only2xx)
          /\ calls[FirstIndex("submit")].url =
                BASE_URL \o "/requests-for-analysis/" \o Get(presigned, "uploadId")
    /\ (Issued("storage") /\ ~StorageOk(StatusOf("storage"), only2xx)) =>
          ~Issued("submit") /\ pc = "raised"
    /\ upload_id # None =>
          /\ upload_id = Some(Get(presigned, "uploadId"))
          /\ Issued("presign") /\ Issued("storage") /\ Issued("submit")
          /\ ~ErrorStatus(StatusOf("presign"))
          /\ StorageOk(StatusOf("storage"), only2xx)
          /\ ~ErrorStatus(StatusOf("submit"))

\* C6 as stated: presign GET, storage POST, submit POST in that order, each at
\* most once; the submit POST only after the storage POST returned a 2xx
\* status; the submit path and the returned value use the presigned uploadId,
\* and a value is returned only if all three calls succeeded.
C6_SubmitOnlyAfter2xx == UploadOrder(TRUE)

\* C6 amended: presign GET, storage POST, submit POST in that order, each at
\* most once; the submit POST is issued only after the storage POST returned a
\* status below 400 (raise_for_status rejects 4xx and 5xx only); a presign
\* failure or a 4xx/5xx storage answer propagates and no later step runs; the
\* submit path and the returned value use the presigned uploadId, and a value
\* is returned only if none of the three calls raised.
C6_SubmitOnlyAfterStorageAccepted == UploadOrder(FALSE)

\* the targets script uploads, submits and gets its upload id back
C6_Witness ==
    /\ workflow = "targets_example" /\ upload_id = Some("u1")
    /\ LastKind = "submit" /\ StatusOf("storage") = 204
    /\ sent[1].params = << <<"target_id", "T1">> >>

---------------------------------------------------------------------------
PresignedItems ==
    LET F == Get(presigned, "fields")
    IN  [i \in 1..Len(F) |-> <<Get(F[i], "key"), Get(F[i], "value")>>]

\* C7: the multipart form posted to storage holds every presigned field, in
\* the order received, followed by the file as the last field, also when two
\* presigned fields have the same key.
C7_AllFieldsThenFile ==
    form # <<>> => form = PresignedItems \o << <<"file", FILENAME>> >>

---------------------------------------------------------------------------
Matches == {i \in 1..Len(f_targets) : Get(f_targets[i], "name") = f_name}
MinOf(I) == CHOOSE i \in I : \A j \in I : i <= j

C8_Result ==
    f_found # None =>
        /\ IF Matches = {} THEN f_found[1] = None
           ELSE f_found[1] = Some(f_targets[MinOf(Matches)])
        /\ calls = <<>> /\ sent = None

\* C8: find_matching_target returns None for an empty list and when no target
\* has the name, and otherwise the first target in list order with that name,
\* also when several share it; it issues no request and leaves the list as it was.
C8_FirstMatchOrNone == []C8_Result /\ [][f_targets' = f_targets]_vars

\* two targets share the name and the first one is returned
C8_Witness ==
    /\ f_found # None /\ Len(f_targets) = 2
    /\ Matches = {1, 2}
    /\ Get(f_targets[1], "id") # Get(f_targets[2], "id")
    /\ f_found[1] = Some(f_targets[1])

---------------------------------------------------------------------------
SleepsDone == IF polls = 0 THEN 0 ELSE IF pc = "poll" THEN polls ELSE polls - 1

C9_Loop ==
    /\ polls = Count("poll")
    /\ slept = 5 * SleepsDone
    /\ pc = "sleep" => ENABLED Sleep
    /\ (pc = "poll" /\ polls < MaxPolls) => ENABLED Poll
    /\ LastKind = "poll" =>
          LET again == ErrorStatus(resp[1].status) /\ SaysNotComplete(LastErrorBody)
          IN  (pc \in {"poll", "sleep"}) <=> again
C9_Wait == pc = "sleep" => (pc' = "poll" /\ slept' = slept + 5 /\ polls' = polls)

\* C9: the poll loop has no maximum attempt count: each attempt issues exactly
\* one poll request, each "not complete" answer is followed by the 5 second
\* sleep and then by the next request, and the loop ends exactly when an
\* answer is a success or another error; while every answer is "not complete"
\* it goes on.
C9_PollsUntilAnswered == []C9_Loop /\ [][C9_Wait]_vars

\* every attempt the model follows was answered "not complete" and the loop is
\* about to poll again
C9_Witness ==
    /\ pc = "poll" /\ polls = MaxPolls /\ slept = 5 * MaxPolls
    /\ Count("poll") = MaxPolls

---------------------------------------------------------------------------
TargetInLibrary(t) == \E i \in 1..Len(library) : library[i] = t
FailedInUploadOrPoll ==
    pc = "raised" /\ LastKind \in {"presign", "storage", "submit", "poll"}

\* C10: targets_example creates a target only when no listed target has the
\* example name; DELETE /targets/{id} is issued only for the target created in
\* this run and only after upload and polling completed; a target that already
\* existed is never deleted; and when upload_and_analyze or
\* get_analysis_results fails after the creation the created target is still
\* in the library when the run ends.
C10_DeletesOnlyItsOwnTarget ==
    /\ Issued("create") =>
          \A i \in 1..Len(targets) : Get(targets[i], "name") # TARGET_NAME
    /\ Issued("delete") =>
          /\ created /\ Issued("create")
          /\ SuccessStatus(StatusOf("create"))
          /\ calls[FirstIndex("delete")].url = BASE_URL \o "/targets/" \o Get(target[1], "id")
          /\ Get(target[1], "id") \notin Ids(library0)
          /\ upload_id # None /\ retval # None
          /\ FirstIndex("delete") = Len(calls)
          /\ calls[Len(calls) - 1].kind = "poll"
    /\ \A i \in 1..Len(library0) : TargetInLibrary(library0[i])
    /\ (created /\ FailedInUploadOrPoll) =>
          TargetInLibrary(target[1]) /\ ~ENABLED Next

\* the created target is left behind when polling fails
C10_Witness ==
    /\ created /\ pc = "raised" /\ LastKind = "poll"
    /\ Len(library0) = 1 /\ Len(library) = 2
    /\ TargetInLibrary(target[1])

====
